---- MODULE Spec2Model ----
(***************************************************************************)
(* Model of the image adjustment pipeline of web-image-tools               *)
(* (src/wasm/src/adjustments.rs, src/wasm/src/common.rs).                   *)
(*                                                                         *)
(* Numbers.  f32 parameters are carried as integers in thousandths         *)
(* (1.0 = Milli), so that the literal 0.001 is exactly one unit.  Inside   *)
(* the operators f32 values are exact rationals <<n, d>> with d > 0; f32   *)
(* rounding error (relative 2^-24) is not modelled, so where the exact     *)
(* value of a channel is a tie k + 1/2 the f32 result may be k where the   *)
(* model has k + 1.  TLC integers are 32 bits wide, so products that would *)
(* not fit go through MulDiv.                                              *)
(***************************************************************************)
EXTENDS Integers, Sequences, FiniteSets, TLC

\* ------------------------------------------------------------------------
\* The state of adjust_image and of its caller
\* ------------------------------------------------------------------------
VARIABLES
    pc,         \* position in adjust_image: "idle", "decode", a stage, "encode", "done"
    data,       \* the input bytes of the call
    params,     \* the nine parameters of the call
    decoded,    \* the DecodedImage
    rgba,       \* the local `rgba`
    history,    \* the stages executed so far, each with its input and output buffer
    encodes,    \* the calls of write_to made so far: buffer and format
    result,     \* the value the call returns
    probe,      \* one evaluation of an operator on one pixel: input, argument, output
    earlier     \* what a caller saw of the calls that have returned

\* ------------------------------------------------------------------------
\* Bounds of the model
\* ------------------------------------------------------------------------
MaxPixels == 2      \* images have at most this many pixels
MaxActive == 2      \* at most this many parameters away from their identity

\* ------------------------------------------------------------------------
\* Program constants
\* ------------------------------------------------------------------------
Milli == 1000       \* the literal 0.001 is 1/Milli
ChannelMax == 255   \* u8::MAX, the 255.0 of the operators
U16Max == 65535     \* u16::MAX, the range of the `as u16` cast

\* ------------------------------------------------------------------------
\* Integer and rational helpers
\* ------------------------------------------------------------------------
Abs(x) == IF x < 0 THEN -x ELSE x

Min(a, b) == IF a < b THEN a ELSE b

Max(a, b) == IF a > b THEN a ELSE b

Clamp(x, lo, hi) == IF x < lo THEN lo ELSE IF x > hi THEN hi ELSE x

RECURSIVE GCD(_, _)
GCD(a, b) == IF b = 0 THEN a ELSE GCD(b, a % b)

\* a rational in lowest terms with a positive denominator
Rat(n, d) ==
    LET g == GCD(Abs(n), Abs(d))
        s == IF d < 0 THEN -1 ELSE 1
    IN  <<s * (n \div g), s * (d \div g)>>

\* f32::round of n/d (d > 0): to nearest, ties away from zero
RoundDiv(n, d) ==
    IF n >= 0 THEN (2 * n + d) \div (2 * d)
    ELSE -((2 * (-n) + d) \div (2 * d))

\* <<q, r>> with x * a = q * D + r and 0 <= r < D, for x, a >= 0 and D > 0,
\* computed without ever forming the product x * a
RECURSIVE MulDiv(_, _, _)
MulDiv(x, a, D) ==
    IF a = 0 THEN <<0, 0>>
    ELSE LET h == MulDiv(x, a \div 2, D)
             odd == (a % 2 = 1)
             t == 2 * h[2] + (IF odd THEN x % D ELSE 0)
         IN  <<2 * h[1] + (t \div D) + (IF odd THEN x \div D ELSE 0), t % D>>

\* ------------------------------------------------------------------------
\* Casts.  Rust's float-to-integer `as` saturates (and the explicit
\* clamp / min of the operators does the same).  x is the rounded value.
\* ------------------------------------------------------------------------
AsU8Wrapping(x) == x % (ChannelMax + 1)

AsU8(x) == Clamp(x, 0, ChannelMax)

AsU16Wrapping(x) == x % (U16Max + 1)

AsU16(x) == Clamp(x, 0, U16Max)

\* ------------------------------------------------------------------------
\* Pixel buffers: RgbaImage, row-major <<r, g, b, a>> pixels
\* ------------------------------------------------------------------------
\* what is left of a buffer whose construction panicked: no image at all
Unwound == [width |-> -1, height |-> -1, pixels |-> <<>>]

NewImageTransposed(width, height) ==
    [width |-> height, height |-> width,
     pixels |-> [i \in 1..(width * height) |-> <<0, 0, 0, 0>>]]

NewImagePadded(width, height) ==
    [width |-> width + (width % 2), height |-> height,
     pixels |-> [i \in 1..((width + (width % 2)) * height) |-> <<0, 0, 0, 0>>]]

\* RgbaImage::new(width, height): zero-filled
NewImage(width, height) ==
    [width |-> width, height |-> height,
     pixels |-> [i \in 1..(width * height) |-> <<0, 0, 0, 0>>]]

\* the loop `for (x, y, pixel) in img.enumerate_pixels() { ...; output.put_pixel(x, y, new) }`
\* over `output = RgbaImage::new(width, height)`, where px[i] is the pixel
\* computed from img.pixels[i]; put_pixel panics on a coordinate outside output
PutPixels(img, px) ==
    LET output == NewImage(img.width, img.height)
    IN  IF img.width > output.width \/ img.height > output.height
        THEN Unwound
        ELSE [output EXCEPT !.pixels =
                [i \in 1..(output.width * output.height) |->
                    LET x == (i - 1) % output.width
                        y == (i - 1) \div output.width
                    IN  IF x < img.width /\ y < img.height
                        THEN px[y * img.width + x + 1]
                        ELSE output.pixels[i]]]

\* ------------------------------------------------------------------------
\* Colour space conversion
\* ------------------------------------------------------------------------
F32EpsilonInv == 2 ^ 23     \* f32::EPSILON is 2^-23

\* x.abs() < f32::EPSILON for a rational x
BelowEpsilon(x) == Abs(x[1]) <= (x[2] - 1) \div F32EpsilonInv

RatClamp01(x) == IF x[1] <= 0 THEN <<0, 1>> ELSE IF x[1] >= x[2] THEN <<1, 1>> ELSE x

rgb_to_hslDarkOnly(r, g, b) ==
    LET mx == Max(Max(r, g), b)
        mn == Min(Min(r, g), b)
        d  == mx - mn
        hd == IF r = mx THEN (g - b) + (IF g < b THEN 6 * d ELSE 0)
              ELSE IF g = mx THEN (b - r) + 2 * d
              ELSE (r - g) + 4 * d
    IN  IF d = 0 THEN [h |-> <<0, 1>>, s |-> <<0, 1>>, l |-> Rat(mx + mn, 2 * ChannelMax)]
        ELSE [h |-> Rat(60 * hd, d), s |-> Rat(d, mx + mn), l |-> Rat(mx + mn, 2 * ChannelMax)]

\* rgb_to_hsl: (h in degrees, s, l) as rationals.  With mx, mn the largest and
\* smallest channel, max = mx/255, min = mn/255 and d = (mx - mn)/255.
rgb_to_hsl(r, g, b) ==
    LET mx == Max(Max(r, g), b)
        mn == Min(Min(r, g), b)
        l  == Rat(mx + mn, 2 * ChannelMax)
        d  == mx - mn
    IN  IF d = 0 THEN [h |-> <<0, 1>>, s |-> <<0, 1>>, l |-> l]
        ELSE LET s == IF 2 * l[1] > l[2]
                      THEN Rat(d, 2 * ChannelMax - mx - mn)
                      ELSE Rat(d, mx + mn)
                 \* h * d, before the scaling by 60
                 hd == IF r = mx THEN (g - b) + (IF g < b THEN 6 * d ELSE 0)
                       ELSE IF g = mx THEN (b - r) + 2 * d
                       ELSE (r - g) + 4 * d
             IN  [h |-> Rat(60 * hd, d), s |-> s, l |-> l]

\* the closure hue_to_rgb(p, q, t) of hsl_to_rgb.  p = pn/qd and q = qn/qd share
\* the denominator qd; the result is <<w, v, vd>>, standing for (w + v/vd)/qd.
hue_to_rgb(pn, qn, t0) ==
    LET t1 == IF t0[1] < 0 THEN <<t0[1] + t0[2], t0[2]>> ELSE t0
        t  == IF t1[1] > t1[2] THEN <<t1[1] - t1[2], t1[2]>> ELSE t1
    IN  IF 6 * t[1] < t[2]
        THEN LET m == MulDiv(qn - pn, 6 * t[1], t[2])
             IN  <<pn + m[1], m[2], t[2]>>
        ELSE IF 2 * t[1] < t[2] THEN <<qn, 0, 1>>
        ELSE IF 3 * t[1] < 2 * t[2]
        THEN LET m == MulDiv(qn - pn, 4 * t[2] - 6 * t[1], t[2])
             IN  <<pn + m[1], m[2], t[2]>>
        ELSE <<pn, 0, 1>>

\* (x * 255.0).round() for x = (w + v/vd)/qd >= 0
Round255(x, qd) ==
    LET e == (2 * ChannelMax * x[2]) \div x[3]
        m == MulDiv(x[1], 2 * ChannelMax, 2 * qd)
    IN  m[1] + ((m[2] + e + qd) \div (2 * qd))

\* hsl_to_rgb before its `as u8` casts: the three rounded channel values
hsl_to_rgb_rounded(h, s, l) ==
    IF BelowEpsilon(s)
    THEN LET v == RoundDiv(ChannelMax * l[1], l[2]) IN <<v, v, v>>
    ELSE LET qd == l[2] * s[2]
             qn == IF 2 * l[1] < l[2]
                   THEN l[1] * (s[2] + s[1])
                   ELSE l[1] * s[2] + s[1] * l[2] - l[1] * s[1]
             pn == 2 * l[1] * s[2] - qn
             \* h / 360.0, then the offsets +1/3, 0, -1/3 on the denominator 3 * 360 * h[2]
             td == 3 * 360 * h[2]
             tn == 3 * h[1]
             th == 360 * h[2]
         IN  << Round255(hue_to_rgb(pn, qn, <<tn + th, td>>), qd),
                Round255(hue_to_rgb(pn, qn, <<tn, td>>), qd),
                Round255(hue_to_rgb(pn, qn, <<tn - th, td>>), qd) >>

hsl_to_rgb(h, s, l) ==
    LET v == hsl_to_rgb_rounded(h, s, l)
    IN  <<AsU8(v[1]), AsU8(v[2]), AsU8(v[3])>>

\* luminance of normalised channels, as a rational over 255 * 1000
luminance(r, g, b) == <<299 * r + 587 * g + 114 * b, ChannelMax * 1000>>

\* ------------------------------------------------------------------------
\* Tone operators
\* ------------------------------------------------------------------------
SaturationPixelUnchanged(px, factor) == px

SaturationPixelLuma(px, factor) ==
    LET hsl == rgb_to_hsl(px[1], px[2], px[3])
        new_s == RatClamp01(Rat(hsl.s[1] * factor, hsl.s[2] * Milli))
        rgb == hsl_to_rgb(hsl.h, new_s, luminance(px[1], px[2], px[3]))
    IN  <<rgb[1], rgb[2], rgb[3], px[4]>>

\* body of the loop of apply_saturation; factor in thousandths
SaturationPixel(px, factor) ==
    LET hsl == rgb_to_hsl(px[1], px[2], px[3])
        new_s == RatClamp01(Rat(hsl.s[1] * factor, hsl.s[2] * Milli))
        rgb == hsl_to_rgb(hsl.h, new_s, hsl.l)
    IN  <<rgb[1], rgb[2], rgb[3], px[4]>>

apply_saturation(img, factor) ==
    PutPixels(img, [i \in 1..Len(img.pixels) |->
            SaturationPixel(img.pixels[i], factor)])

\* body of the loop of apply_vibrance; amount is the rational vibrance / 100
VibrancePixel(px, amount) ==
    LET hsl == rgb_to_hsl(px[1], px[2], px[3])
        \* s + amount * (1 - s)
        new_s == RatClamp01(Rat(hsl.s[1] * amount[2] + amount[1] * (hsl.s[2] - hsl.s[1]),
                                hsl.s[2] * amount[2]))
        rgb == hsl_to_rgb(hsl.h, new_s, hsl.l)
    IN  <<rgb[1], rgb[2], rgb[3], px[4]>>

apply_vibrance(img, amount) ==
    PutPixels(img, [i \in 1..Len(img.pixels) |->
            VibrancePixel(img.pixels[i], amount)])

\* 2.0_f32.powf(stops) as a rational, stops in thousandths.  Whole stops are
\* exact powers of two; the fractional stops of the model are tabulated to 1e-6.
Exp2(stops) ==
    IF stops % Milli = 0
    THEN IF stops >= 0 THEN <<2 ^ (stops \div Milli), 1>>
                       ELSE <<1, 2 ^ ((-stops) \div Milli)>>
    ELSE CASE stops = 2  -> <<1001387, 1000000>>
           [] stops = -2 -> <<998615, 1000000>>
           [] stops = 500 -> <<1414214, 1000000>>
           [] stops = -500 -> <<707107, 1000000>>

\* (c as f32 * multiplier).round()
ExposureRounded(c, multiplier) == RoundDiv(c * multiplier[1], multiplier[2])

\* ((c as f32 * multiplier).round() as u16).min(255) as u8
ExposureChannel(c, multiplier) ==
    AsU8(Min(AsU16(ExposureRounded(c, multiplier)), ChannelMax))

apply_exposure(img, stops) ==
    LET multiplier == Exp2(stops)
    IN  PutPixels(img, [i \in 1..Len(img.pixels) |->
          <<ExposureChannel(img.pixels[i][1], multiplier),
            ExposureChannel(img.pixels[i][2], multiplier),
            ExposureChannel(img.pixels[i][3], multiplier), img.pixels[i][4]>>])

\* a rounded value standing for +infinity and for everything beyond the table
F32Huge == 2 ^ 30

GammaRoundedDirect(c, gamma) ==
    CASE gamma = 0 -> IF c = ChannelMax THEN ChannelMax ELSE 0
      [] gamma = -Milli -> IF c = 0 THEN F32Huge ELSE RoundDiv(ChannelMax * ChannelMax, c)
      [] 2 * gamma = Milli ->
            CHOOSE v \in 0..ChannelMax :
                /\ (v = 0 \/ (2 * v - 1) * (2 * v - 1) <= 4 * ChannelMax * c)
                /\ 4 * ChannelMax * c < (2 * v + 1) * (2 * v + 1)
      [] gamma = 2 * Milli -> RoundDiv(c * c, ChannelMax)
      [] Abs(gamma - Milli) <= 2 -> c

\* ((c as f32 / 255.0).powf(1.0 / gamma) * 255.0).round(), gamma in thousandths.
\* powf is evaluated exactly for the exponents the model uses:
\*   gamma = 2 (square root), gamma = 0.5 (square), gamma = -1 (reciprocal),
\*   gamma = 0 (exponent +inf: 0 below 1.0, and 1.0 stays 1.0),
\*   |gamma - 1| <= 0.002: c * (c/255)^e with |e| <= 0.002005 differs from c by
\*   less than 0.2, so the rounded value is c.
GammaRounded(c, gamma) ==
    CASE gamma = 0 -> IF c = ChannelMax THEN ChannelMax ELSE 0
      [] gamma = -Milli -> IF c = 0 THEN F32Huge ELSE RoundDiv(ChannelMax * ChannelMax, c)
      [] gamma = 2 * Milli ->
            CHOOSE v \in 0..ChannelMax :
                /\ (v = 0 \/ (2 * v - 1) * (2 * v - 1) <= 4 * ChannelMax * c)
                /\ 4 * ChannelMax * c < (2 * v + 1) * (2 * v + 1)
      [] 2 * gamma = Milli -> RoundDiv(c * c, ChannelMax)
      [] Abs(gamma - Milli) <= 2 -> c

GammaPixelWithAlpha(px, gamma) ==
    <<AsU8(GammaRounded(px[1], gamma)), AsU8(GammaRounded(px[2], gamma)),
      AsU8(GammaRounded(px[3], gamma)), AsU8(GammaRounded(px[4], gamma))>>

\* body of the loop of apply_gamma
GammaPixel(px, gamma) ==
    <<AsU8(GammaRounded(px[1], gamma)), AsU8(GammaRounded(px[2], gamma)),
      AsU8(GammaRounded(px[3], gamma)), px[4]>>

apply_gamma(img, gamma) ==
    PutPixels(img, [i \in 1..Len(img.pixels) |->
            GammaPixel(img.pixels[i], gamma)])

\* the sign of f - 1/2 for f = (m + r/D)/ad, 0 <= m < ad, 0 <= r < D
HalfCmp(m, r, D, ad) ==
    LET x == 2 * m - ad
    IN  IF x >= 1 THEN 1
        ELSE IF x = 0 THEN (IF r > 0 THEN 1 ELSE 0)
        ELSE IF x = -1 THEN (IF 2 * r > D THEN 1 ELSE IF 2 * r = D THEN 0 ELSE -1)
        ELSE -1

\* ((cf * adjustment) * 255.0).round() with cf = c / 255 and
\* adjustment = 1.0 + (amount / 100.0) * weight; amount in thousandths,
\* weight a rational in [0, 1]
TonedRounded(c, amount, weight) ==
    LET a == Rat(amount, 100 * Milli)
        m == MulDiv(c * weight[1], Abs(a[1]), weight[2])
        k == m[1] \div a[2]
        half == HalfCmp(m[1] % a[2], m[2], weight[2], a[2])
    IN  IF a[1] >= 0 THEN c + k + (IF half >= 0 THEN 1 ELSE 0)
        ELSE IF c - k >= 1 \/ (c - k = 0 /\ m[1] % a[2] = 0 /\ m[2] = 0)
             THEN (c - k) - (IF half > 0 THEN 1 ELSE 0)
             ELSE (c - k) - (IF half >= 0 THEN 1 ELSE 0)

shadow_weightWide(lum) == <<Max(lum[2] - lum[1], 0), lum[2]>>

\* (1.0 - lum * 2.0).max(0.0)
shadow_weight(lum) == <<Max(lum[2] - 2 * lum[1], 0), lum[2]>>

\* ((lum - 0.5) * 2.0).max(0.0)
highlight_weight(lum) == <<Max(2 * lum[1] - lum[2], 0), lum[2]>>

\* body of the loop of apply_shadows
ShadowsPixel(px, amount) ==
    LET w == shadow_weight(luminance(px[1], px[2], px[3]))
    IN  <<AsU8(TonedRounded(px[1], amount, w)), AsU8(TonedRounded(px[2], amount, w)),
          AsU8(TonedRounded(px[3], amount, w)), px[4]>>

apply_shadows(img, amount) ==
    PutPixels(img, [i \in 1..Len(img.pixels) |->
            ShadowsPixel(img.pixels[i], amount)])

\* body of the loop of apply_highlights
HighlightsPixel(px, amount) ==
    LET w == highlight_weight(luminance(px[1], px[2], px[3]))
    IN  <<AsU8(TonedRounded(px[1], amount, w)), AsU8(TonedRounded(px[2], amount, w)),
          AsU8(TonedRounded(px[3], amount, w)), px[4]>>

apply_highlights(img, amount) ==
    PutPixels(img, [i \in 1..Len(img.pixels) |->
            HighlightsPixel(img.pixels[i], amount)])

\* ------------------------------------------------------------------------
\* Operators of the image library (image::imageops).  Their source is not
\* part of the repository: dimensions and alpha follow the contract the
\* specification puts on them (same dimensions, alpha copied), the colour
\* arithmetic follows the library's documented formulas.
\* ------------------------------------------------------------------------
\* brighten: the offset is added to every colour channel
brighten(img, value) ==
    PutPixels(img, [i \in 1..Len(img.pixels) |->
          <<Clamp(img.pixels[i][1] + value, 0, ChannelMax),
            Clamp(img.pixels[i][2] + value, 0, ChannelMax),
            Clamp(img.pixels[i][3] + value, 0, ChannelMax), img.pixels[i][4]>>])

\* ((100 + contrast) / 100)^2 in millionths, contrast in thousandths
ContrastPercent(contrast_val) ==
    MulDiv(Abs(100 * Milli + contrast_val), Abs(100 * Milli + contrast_val), 10000)[1]

\* ((c / 255 - 0.5) * percent + 0.5) * 255, clamped, then truncated
ContrastChannel(c, percent) ==
    LET n == (2 * c - ChannelMax) * percent + ChannelMax * 1000000
    IN  IF n <= 0 THEN 0 ELSE Min(n \div 2000000, ChannelMax)

contrast(img, contrast_val) ==
    LET percent == ContrastPercent(contrast_val)
    IN  PutPixels(img, [i \in 1..Len(img.pixels) |->
          <<ContrastChannel(img.pixels[i][1], percent),
            ContrastChannel(img.pixels[i][2], percent),
            ContrastChannel(img.pixels[i][3], percent), img.pixels[i][4]>>])

\* <<cos, sin>> of an angle in degrees, in thousandths
CosSin(deg) ==
    LET a == deg % 360
    IN  CASE a = 0 -> <<1000, 0>>
          [] a = 1 -> <<1000, 17>>
          [] a = 90 -> <<0, 1000>>
          [] a = 180 -> <<-1000, 0>>
          [] a = 270 -> <<0, -1000>>
          [] a = 359 -> <<1000, -17>>

\* the rotated colour channel sum(m[i] * c[i]), m in millionths, clamped and truncated
HueChannel(m, px) ==
    LET n == m[1] * px[1] + m[2] * px[2] + m[3] * px[3]
    IN  IF n <= 0 THEN 0 ELSE Min(n \div 1000000, ChannelMax)

\* huerotate: the colour matrix of the rotation by `value` degrees
huerotate(img, value) ==
    LET cs == CosSin(value)
        cosv == cs[1]
        sinv == cs[2]
        reds   == <<213000 + cosv * 787 - sinv * 213,
                    715000 - cosv * 715 - sinv * 715,
                    72000 - cosv * 72 + sinv * 928>>
        greens == <<213000 - cosv * 213 + sinv * 143,
                    715000 + cosv * 285 + sinv * 140,
                    72000 - cosv * 72 - sinv * 283>>
        blues  == <<213000 - cosv * 213 - sinv * 787,
                    715000 - cosv * 715 + sinv * 715,
                    72000 + cosv * 928 + sinv * 72>>
    IN  PutPixels(img, [i \in 1..Len(img.pixels) |->
          <<HueChannel(reds, img.pixels[i]), HueChannel(greens, img.pixels[i]),
            HueChannel(blues, img.pixels[i]), img.pixels[i][4]>>])

\* ------------------------------------------------------------------------
\* Inputs of the model
\* ------------------------------------------------------------------------
Palette == << <<100, 150, 200, 255>>, <<0, 0, 0, 0>>, <<255, 255, 255, 128>>, <<30, 200, 90, 77>> >>

Formats == <<"Png", "Jpeg">>

NoFormat == "None"

\* the pixels of sample `start`: the palette, taken cyclically
SamplePixels(n, start) == [i \in 1..n |-> Palette[((start + i - 2) % Len(Palette)) + 1]]

\* a DynamicImage: Rgba8 keeps four channels per pixel, Rgb8 three
Rgba8Image(w, h, start) ==
    [color |-> "Rgba8", width |-> w, height |-> h, pixels |-> SamplePixels(w * h, start)]

Rgb8Image(w, h, start) ==
    [color |-> "Rgb8", width |-> w, height |-> h,
     pixels |-> [i \in 1..(w * h) |-> SubSeq(SamplePixels(w * h, start)[i], 1, 3)]]

Dims == {d \in (1..MaxPixels) \X (1..MaxPixels) : d[1] * d[2] <= MaxPixels}

NoImage == [color |-> "None", width |-> 0, height |-> 0, pixels |-> <<>>]

\* the byte strings handed to adjust_image, described by what the image
\* reader finds in them: the format its signature is guessed as, whether the
\* payload parses, and the image it parses to
SampleFiles ==
    {[guess |-> "Png", payload |-> "ok", img |-> Rgba8Image(s[1][1], s[1][2], s[2])] :
        s \in {t \in Dims \X (1..Len(Palette)) :
                  t[1][1] * t[1][2] = 1 \/ t[2] % 2 = 1}}
    \cup {[guess |-> "Jpeg", payload |-> "ok", img |-> Rgb8Image(1, 1, 1)],
          [guess |-> "Jpeg", payload |-> "ok", img |-> Rgb8Image(1, 1, 4)]}
    \cup {[guess |-> NoFormat, payload |-> "ok", img |-> Rgba8Image(1, 1, 1)],
          [guess |-> NoFormat, payload |-> "malformed", img |-> NoImage],
          [guess |-> "Png", payload |-> "malformed", img |-> NoImage]}

Fields == {"brightness", "contrast_val", "saturation", "hue", "exposure",
           "gamma", "shadows", "highlights", "vibrance"}

\* brightness and hue are i32; the f32 parameters are in thousandths
IdentityParams ==
    [brightness |-> 0, contrast_val |-> 0, saturation |-> Milli, hue |-> 0,
     exposure |-> 0, gamma |-> Milli, shadows |-> 0, highlights |-> 0, vibrance |-> 0]

\* other values of each parameter: on and next to the skip threshold, inside
\* and outside the documented range
OtherValues(f) ==
    CASE f = "brightness"   -> {1, -100, 1000}
      [] f = "contrast_val" -> {1, 2, 50000, -300000}
      [] f = "saturation"   -> {999, 1002, 0, 5000}
      [] f = "hue"          -> {1, 180, -90, 540}
      [] f = "exposure"     -> {-1, 2, 1000, 20000}
      [] f = "gamma"        -> {999, 1002, 2000, 0, -1000}
      [] f = "shadows"      -> {1, -2, 50000, -500000}
      [] f = "highlights"   -> {-1, 2, 100000, -500000}
      [] f = "vibrance"     -> {1, 50, -100000, 300000}

\* parameter records with at most k fields changed from the identity
RECURSIVE ParamsWithin(_)
ParamsWithin(k) ==
    IF k = 0 THEN {IdentityParams}
    ELSE LET prev == ParamsWithin(k - 1)
         IN  prev \cup UNION {{[p EXCEPT ![f] = v] : v \in OtherValues(f)} :
                                p \in prev, f \in Fields}

\* records in which every stage runs
AllStagesParams ==
    {[brightness |-> -100, contrast_val |-> 50000, saturation |-> 1002, hue |-> 180,
      exposure |-> 1000, gamma |-> 2000, shadows |-> 50000, highlights |-> -500000,
      vibrance |-> 50],
     [brightness |-> 1, contrast_val |-> 2, saturation |-> 0, hue |-> 1,
      exposure |-> 20000, gamma |-> -1000, shadows |-> -2, highlights |-> 2,
      vibrance |-> 300000]}

ParamSpace == ParamsWithin(MaxActive) \cup AllStagesParams

\* ------------------------------------------------------------------------
\* decode_image and the conversions around the pipeline
\* ------------------------------------------------------------------------
NoDecoded == [ok |-> FALSE, err |-> "", img |-> NoImage, format |-> NoFormat, format_name |-> ""]

decode_image_lenient(bytes) ==
    LET format == IF bytes.guess = NoFormat THEN "Png" ELSE bytes.guess
    IN  [ok |-> TRUE, err |-> "",
         img |-> IF bytes.payload = "ok" THEN bytes.img ELSE Rgba8Image(1, 1, 2),
         format |-> format, format_name |-> format]

decode_image_stale(bytes) ==
    LET src == IF earlier = <<>> THEN bytes ELSE earlier[Len(earlier)].data
        format == IF src.guess = NoFormat THEN "Png" ELSE src.guess
    IN  IF src.guess = NoFormat \/ src.payload # "ok"
        THEN [NoDecoded EXCEPT !.err = "Failed to decode image"]
        ELSE [ok |-> TRUE, err |-> "", img |-> src.img,
              format |-> format, format_name |-> format]

\* decode_image.  with_guessed_format reads from an in-memory cursor and
\* cannot fail; reader.decode() fails when no format was guessed or when the
\* payload does not parse.
decode_image(bytes) ==
    LET format == IF bytes.guess = NoFormat THEN "Png" ELSE bytes.guess
    IN  IF bytes.guess = NoFormat \/ bytes.payload # "ok"
        THEN [NoDecoded EXCEPT !.err = "Failed to decode image"]
        ELSE [ok |-> TRUE, err |-> "", img |-> bytes.img,
              format |-> format, format_name |-> format]

\* DynamicImage::to_rgba8: an image without alpha becomes opaque
to_rgba8(img) ==
    [width |-> img.width, height |-> img.height,
     pixels |-> [i \in 1..Len(img.pixels) |->
                    IF img.color = "Rgba8" THEN img.pixels[i]
                    ELSE <<img.pixels[i][1], img.pixels[i][2], img.pixels[i][3], ChannelMax>>]]

\* ------------------------------------------------------------------------
\* adjust_image
\* ------------------------------------------------------------------------
vars == <<pc, data, params, decoded, rgba, history, encodes, result, probe, earlier>>

\* the variables adjust_image has no access to
outside == <<probe, earlier>>

NoProbe == [op |-> "none", px |-> <<0, 0, 0, 0>>, arg |-> <<>>, out |-> <<>>]

NoBytes == [format |-> NoFormat, img |-> Unwound]

NoResult == [ok |-> FALSE, err |-> "", bytes |-> NoBytes]

Err(msg) == [ok |-> FALSE, err |-> msg, bytes |-> NoBytes]

Ok(bytes) == [ok |-> TRUE, err |-> "", bytes |-> bytes]

StageOrderBrightnessFirst ==
    <<"exposure", "shadows", "highlights", "brightness", "gamma", "contrast",
      "saturation", "vibrance", "hue">>

\* the order of the nine blocks of adjust_image
StageOrder ==
    <<"exposure", "shadows", "highlights", "gamma", "brightness", "contrast",
      "saturation", "vibrance", "hue">>

StageIndex(name) == CHOOSE i \in 1..Len(StageOrder) : StageOrder[i] = name

\* the position after the block of stage `name`
After(name) ==
    IF StageIndex(name) = Len(StageOrder) THEN "encode"
    ELSE StageOrder[StageIndex(name) + 1]

\* the conditions of the nine `if`s; f32 values x in thousandths, so
\* x.abs() > 0.001 reads Abs(x) * 1000 > Milli
RunsExposure(exposure) == Abs(exposure) * 1000 > Milli

RunsShadows(shadows) == Abs(shadows) * 1000 > Milli

RunsHighlights(highlights) == Abs(highlights) * 1000 > Milli

RunsGamma(gamma) == Abs(gamma - Milli) * 1000 > Milli

RunsBrightness(brightness) == brightness # 0

RunsContrast(contrast_val) == Abs(contrast_val) * 1000 > Milli

RunsSaturation(saturation) == Abs(saturation - Milli) * 1000 > Milli

RunsVibranceNormalized(vibrance) == Abs(vibrance) * 1000 > 100 * Milli

RunsVibrance(vibrance) == Abs(vibrance) * 1000 > Milli

RunsHue(hue) == hue # 0

I32Max == 2147483647     \* i32::MAX
F32Digits == 24          \* significant bits of an f32
F32_1_28 == 10737418     \* the f32 nearest to 1.28 is 10737418 / 2^23

I32Min == -I32Max - 1

\* the number of bits of n >= 0
RECURSIVE BitLen(_)
BitLen(n) == IF n = 0 THEN 0 ELSE 1 + BitLen(n \div 2)

\* q + rem / 2^k to the nearest integer, ties to even (0 <= rem < 2^k): the
\* rounding of every f32 conversion and product
RoundTiesEven(q, rem, k) ==
    q + (IF 2 * rem > 2 ^ k \/ (2 * rem = 2 ^ k /\ q % 2 = 1) THEN 1 ELSE 0)

\* `m as f32` for 0 <= m <= i32::MAX: the f32 is sig * 2^exp
F32OfInt(m) ==
    LET e == Max(BitLen(m) - F32Digits, 0)
    IN  [sig |-> RoundTiesEven(m \div 2 ^ e, m % 2 ^ e, e), exp |-> e]

\* the f32 product x * 1.28 for x = sig * 2^exp, again as sig * 2^exp (exp
\* may be negative); the 48-bit product of the significands is formed in
\* limbs of 12 bits and rounded to 24 bits
TimesF32_1_28(x) ==
    LET L == 2 ^ 12
        Mh == x.sig \div L
        Ml == x.sig % L
        Kh == F32_1_28 \div L
        Kl == F32_1_28 % L
        mid == Mh * Kl + Ml * Kh
        t == (mid % L) * L + Ml * Kl
        lo == t % (L * L)
        hi == Mh * Kh + mid \div L + t \div (L * L)
        k == BitLen(hi)
    IN  [sig |-> RoundTiesEven(hi * 2 ^ (F32Digits - k) + lo \div 2 ^ k, lo % 2 ^ k, k),
         exp |-> x.exp + k - (F32Digits - 1)]

TruncAsI32(x, limit) ==
    IF x.exp < 0 THEN x.sig \div 2 ^ (-x.exp)
    ELSE IF x.exp > 0 /\ x.sig >= 2 ^ (31 - x.exp) THEN limit
    ELSE x.sig * 2 ^ x.exp

\* `x.round() as i32` for x = sig * 2^exp >= 0: ties away from zero, and
\* the cast saturates at `limit`
RoundAsI32(x, limit) ==
    IF x.exp < 0 THEN RoundDiv(x.sig, 2 ^ (-x.exp))
    ELSE IF x.exp > 0 /\ x.sig >= 2 ^ (31 - x.exp) THEN limit
    ELSE x.sig * 2 ^ x.exp

\* (brightness as f32 * 1.28).round() as i32
brightness_scaled(brightness) ==
    IF brightness = I32Min THEN I32Min
    ELSE IF brightness >= 0
         THEN RoundAsI32(TimesF32_1_28(F32OfInt(brightness)), I32Max)
         ELSE LET v == RoundAsI32(TimesF32_1_28(F32OfInt(-brightness)), I32Max)
              IN  IF v = I32Max THEN I32Min ELSE -v

\* vibrance / 100.0
vibrance_normalized(vibrance) == Rat(vibrance, 100 * Milli)

KeepBlank(run, out, cur) == IF run THEN out ELSE NewImage(cur.width, cur.height)

\* `if run { rgba = out }`: the value of rgba after the block
Keep(run, out, cur) == IF run THEN out ELSE cur

\* one block of the pipeline; a panic inside the operator unwinds the call
Stage(name, run, out) ==
    /\ IF run /\ out = Unwound
       THEN /\ result' = Err("panicked")
            /\ pc' = "done"
            /\ UNCHANGED <<rgba, history>>
       ELSE /\ rgba' = Keep(run, out, rgba)
            /\ history' = IF run
                          THEN Append(history, [stage |-> name, input |-> rgba, output |-> out])
                          ELSE history
            /\ pc' = After(name)
            /\ UNCHANGED result
    /\ UNCHANGED <<data, params, decoded, encodes, outside>>

Init ==
    /\ pc = "idle"
    /\ data = [guess |-> NoFormat, payload |-> "", img |-> NoImage]
    /\ params = IdentityParams
    /\ decoded = NoDecoded
    /\ rgba = Unwound
    /\ history = <<>>
    /\ encodes = <<>>
    /\ result = NoResult
    /\ probe = NoProbe
    /\ earlier = <<>>

\* a call of adjust_image(data, brightness, ..., vibrance)
Call ==
    /\ pc = "idle"
    /\ \E d \in SampleFiles, p \in ParamSpace :
          /\ data' = d
          /\ params' = p
    /\ pc' = "decode"
    /\ UNCHANGED <<decoded, rgba, history, encodes, result, outside>>

\* let decoded = decode_image(data)?; let mut rgba = decoded.img.to_rgba8();
Decode ==
    /\ pc = "decode"
    /\ LET r == decode_image(data)
       IN  IF r.ok
           THEN /\ decoded' = r
                /\ rgba' = to_rgba8(r.img)
                /\ pc' = StageOrder[1]
                /\ UNCHANGED result
           ELSE /\ result' = Err(r.err)
                /\ pc' = "done"
                /\ UNCHANGED <<decoded, rgba>>
    /\ UNCHANGED <<data, params, history, encodes, outside>>

Exposure ==
    /\ pc = "exposure"
    /\ Stage("exposure", RunsExposure(params.exposure),
             apply_exposure(rgba, params.exposure))

Shadows ==
    /\ pc = "shadows"
    /\ Stage("shadows", RunsShadows(params.shadows),
             apply_shadows(rgba, params.shadows))

Highlights ==
    /\ pc = "highlights"
    /\ Stage("highlights", RunsHighlights(params.highlights),
             apply_highlights(rgba, params.highlights))

Gamma ==
    /\ pc = "gamma"
    /\ Stage("gamma", RunsGamma(params.gamma),
             apply_gamma(rgba, params.gamma))

Brightness ==
    /\ pc = "brightness"
    /\ Stage("brightness", RunsBrightness(params.brightness),
             brighten(rgba, brightness_scaled(params.brightness)))

Contrast ==
    /\ pc = "contrast"
    /\ Stage("contrast", RunsContrast(params.contrast_val),
             contrast(rgba, params.contrast_val))

Saturation ==
    /\ pc = "saturation"
    /\ Stage("saturation", RunsSaturation(params.saturation),
             apply_saturation(rgba, params.saturation))

Vibrance ==
    /\ pc = "vibrance"
    /\ Stage("vibrance", RunsVibrance(params.vibrance),
             apply_vibrance(rgba, vibrance_normalized(params.vibrance)))

Hue ==
    /\ pc = "hue"
    /\ Stage("hue", RunsHue(params.hue),
             huerotate(rgba, params.hue))

EncodeFormatPng(d) == "Png"

\* the format argument of write_to
EncodeFormat(d) == d.format

EncodeResultLossy(written, bytes) == Ok(bytes)

\* `.map_err(...)?; Ok(output)`: the value returned after write_to
EncodeResult(written, bytes) ==
    IF written THEN Ok(bytes) ELSE Err("Failed to encode adjusted image")

\* adjusted.write_to(&mut Cursor::new(&mut output), decoded.format), which
\* the encoder may refuse, and the return
Encode ==
    /\ pc = "encode"
    /\ \E written \in BOOLEAN :
          /\ encodes' = Append(encodes, [img |-> rgba, format |-> EncodeFormat(decoded),
                                         written |-> written])
          /\ result' = EncodeResult(written,
                                    IF written
                                    THEN [format |-> EncodeFormat(decoded), img |-> rgba]
                                    ELSE [format |-> EncodeFormat(decoded), img |-> Unwound])
    /\ pc' = "done"
    /\ UNCHANGED <<data, params, decoded, rgba, history, outside>>

\* the call is over: the result has gone to the caller and the locals are
\* dropped; nothing of the call is left for the next one
Return ==
    /\ pc = "done"
    /\ pc' = "idle"
    /\ data' = [guess |-> NoFormat, payload |-> "", img |-> NoImage]
    /\ params' = IdentityParams
    /\ decoded' = NoDecoded
    /\ rgba' = Unwound
    /\ history' = <<>>
    /\ encodes' = <<>>
    /\ result' = NoResult
    /\ UNCHANGED outside

Next ==
    \/ Call
    \/ Decode
    \/ Exposure
    \/ Shadows
    \/ Highlights
    \/ Gamma
    \/ Brightness
    \/ Contrast
    \/ Saturation
    \/ Vibrance
    \/ Hue
    \/ Encode
    \/ Return

Spec == Init /\ [][Next]_vars

\* ------------------------------------------------------------------------
\* The operators on single pixels
\* ------------------------------------------------------------------------
pipeline == <<pc, data, params, decoded, rgba, history, encodes, result>>

\* no call of adjust_image is in progress
Quiescent ==
    /\ pc = "idle"
    /\ data = [guess |-> NoFormat, payload |-> "", img |-> NoImage]
    /\ params = IdentityParams
    /\ decoded = NoDecoded
    /\ rgba = Unwound
    /\ history = <<>>
    /\ encodes = <<>>
    /\ result = NoResult

\* channel values: the ends, the middle, and the channels of pixels whose
\* luminance is exactly 0.5 such as (233, 49, 255)
ProbeChannels == {0, 1, 49, 100, 127, 128, 150, 200, 233, 254, 255}

ProbePixels ==
    {<<r, g, b, ChannelMax>> : r \in ProbeChannels, g \in ProbeChannels, b \in ProbeChannels}
    \cup {Palette[i] : i \in 1..Len(Palette)}

OperatorInit ==
    /\ Quiescent
    /\ earlier = <<>>
    /\ probe \in {[op |-> "input", px |-> px, arg |-> <<>>, out |-> <<>>] : px \in ProbePixels}

\* the evaluation of operator `op` with argument `arg`, giving `out`
Evaluate(op, arg, out) ==
    /\ probe' = [probe EXCEPT !.op = op, !.arg = arg, !.out = out]
    /\ UNCHANGED <<pipeline, earlier>>

\* hsl_to_rgb(rgb_to_hsl(r, g, b))
RoundTrip ==
    /\ probe.op = "input"
    /\ LET hsl == rgb_to_hsl(probe.px[1], probe.px[2], probe.px[3])
       IN  Evaluate("round_trip", <<>>, hsl_to_rgb(hsl.h, hsl.s, hsl.l))

\* saturation factors, in thousandths
ProbeFactors == {0, 500, 1500, 5000}

\* the loop body of apply_saturation
SaturationOp ==
    /\ probe.op = "input"
    /\ \E factor \in ProbeFactors :
          Evaluate("saturation", factor, SaturationPixel(probe.px, factor))

\* exposure stops, in thousandths: whole and half stops, up to +20
ProbeStops == {1000, -1000, 2000, -3000, 500, -500, 9000, 20000}

\* the loop body of apply_exposure
ExposureOp ==
    /\ probe.op = "input"
    /\ \E stops \in ProbeStops :
          Evaluate("exposure", stops,
                   <<ExposureChannel(probe.px[1], Exp2(stops)),
                     ExposureChannel(probe.px[2], Exp2(stops)),
                     ExposureChannel(probe.px[3], Exp2(stops)), probe.px[4]>>)

\* shadows and highlights amounts, in thousandths: inside the documented
\* range, at its ends and beyond them
ProbeAmounts == {50000, -50000, 100000, -100000, 500000, -500000}

\* the loop body of apply_shadows
ShadowsOp ==
    /\ probe.op = "input"
    /\ \E amount \in ProbeAmounts :
          Evaluate("shadows", amount, ShadowsPixel(probe.px, amount))

\* the loop body of apply_highlights
HighlightsOp ==
    /\ probe.op = "input"
    /\ \E amount \in ProbeAmounts :
          Evaluate("highlights", amount, HighlightsPixel(probe.px, amount))

\* hue rotations, in degrees
ProbeGammas == {2000, 500}

\* apply_gamma on one pixel
GammaOp ==
    /\ probe.op = "input"
    /\ \E gamma \in ProbeGammas :
          Evaluate("gamma", gamma, GammaPixel(probe.px, gamma))

ProbeDegrees == {90, 180}

\* a buffer of one pixel
OnePixel(px) == [width |-> 1, height |-> 1, pixels |-> <<px>>]

\* the saturation block followed by the hue block, as adjust_image has them,
\* and the two blocks the other way round
SwapSaturationHue ==
    /\ probe.op = "input"
    /\ \E factor \in ProbeFactors \ {0}, value \in ProbeDegrees :
          Evaluate("saturation_hue", <<factor, value>>,
                   [coded   |-> huerotate(apply_saturation(OnePixel(probe.px), factor),
                                          value).pixels[1],
                    swapped |-> apply_saturation(huerotate(OnePixel(probe.px), value),
                                                 factor).pixels[1]])

OperatorNext ==
    \/ RoundTrip
    \/ SaturationOp
    \/ ExposureOp
    \/ ShadowsOp
    \/ HighlightsOp
    \/ SwapSaturationHue
    \/ GammaOp

OperatorSpec == OperatorInit /\ [][OperatorNext]_vars

\* ------------------------------------------------------------------------
\* The arguments of the three library calls of adjust_image
\* ------------------------------------------------------------------------
ProbeBrightness ==
    (-100..100) \cup {1000, 819215, -819215, 819216, -819216, 16777217,
                      1677721600, I32Max, -I32Max, I32Min}

ProbeContrasts == {0, 1, 50000, -100000, 250000}

ProbeHues == {0, 90, -180, 720}

ArgumentInit ==
    /\ Quiescent
    /\ earlier = <<>>
    /\ probe = NoProbe

\* blocks 4, 5 and the hue block of adjust_image: the arguments with which
\* brighten, contrast and huerotate are called (no element: not called)
PassArguments ==
    /\ probe.op = "none"
    /\ \E brightness \in ProbeBrightness, contrast_val \in ProbeContrasts, hue \in ProbeHues :
          /\ probe' = [probe EXCEPT
                           !.op = "arguments",
                           !.arg = [brightness |-> brightness,
                                    contrast_val |-> contrast_val,
                                    hue |-> hue],
                           !.out = [brighten  |-> IF RunsBrightness(brightness)
                                                  THEN <<brightness_scaled(brightness)>>
                                                  ELSE <<>>,
                                    contrast  |-> IF RunsContrast(contrast_val)
                                                  THEN <<contrast_val>>
                                                  ELSE <<>>,
                                    huerotate |-> IF RunsHue(hue) THEN <<hue>> ELSE <<>>]]
    /\ UNCHANGED <<pipeline, earlier>>

ArgumentNext == PassArguments

ArgumentSpec == ArgumentInit /\ [][ArgumentNext]_vars

\* ------------------------------------------------------------------------
\* Calls one after another, each remembered by its caller
\* ------------------------------------------------------------------------
MaxEarlier == 2     \* calls that have returned and are remembered

PurityFiles == {f \in SampleFiles : f.guess = "Jpeg" \/ (f.guess = "Png" /\ f.payload = "malformed")}

PurityParams == AllStagesParams

\* what the caller saw of a call: its arguments, the encoder calls it made
\* and the value it returned
CallRecord == [data |-> data, params |-> params, encodes |-> encodes, result |-> result]

PurityInit ==
    /\ Quiescent
    /\ probe = NoProbe
    /\ earlier = <<>>

\* one more call of adjust_image, after those that have returned
CallAgain ==
    /\ pc = "idle"
    /\ Len(earlier) <= MaxEarlier
    /\ \E d \in PurityFiles, p \in PurityParams :
          /\ data' = d
          /\ params' = p
    /\ pc' = "decode"
    /\ UNCHANGED <<decoded, rgba, history, encodes, result, outside>>

\* the call returns: the caller keeps the result, the locals are dropped
ReturnToCaller ==
    /\ pc = "done"
    /\ Len(earlier) < MaxEarlier
    /\ earlier' = Append(earlier, CallRecord)
    /\ pc' = "idle"
    /\ data' = [guess |-> NoFormat, payload |-> "", img |-> NoImage]
    /\ params' = IdentityParams
    /\ decoded' = NoDecoded
    /\ rgba' = Unwound
    /\ history' = <<>>
    /\ encodes' = <<>>
    /\ result' = NoResult
    /\ UNCHANGED probe

PurityNext ==
    \/ CallAgain
    \/ Decode
    \/ Exposure
    \/ Shadows
    \/ Highlights
    \/ Gamma
    \/ Brightness
    \/ Contrast
    \/ Saturation
    \/ Vibrance
    \/ Hue
    \/ Encode
    \/ ReturnToCaller

PuritySpec == PurityInit /\ [][PurityNext]_vars

\* ------------------------------------------------------------------------
\* crop_image (transforms.rs).  A u32 is kept as two 16-bit halves, hi and
\* lo, so that 2^32 - 1 and the carry out of bit 31 can be represented.
\* ------------------------------------------------------------------------
U32(hi, lo) == [hi |-> hi, lo |-> lo]

U32Max == U32(U16Max, U16Max)

\* the u32 sum a + b: its low 32 bits and whether it carried out of them
AddU32(a, b) ==
    LET lo == a.lo + b.lo
        hi == a.hi + b.hi + lo \div (U16Max + 1)
    IN  [wrapped |-> U32(hi % (U16Max + 1), lo % (U16Max + 1)),
         overflow |-> hi > U16Max]

\* a > dim for a dimension of the model's images
GreaterU32(a, dim) == a.hi > 0 \/ a.lo > dim

\* the true sum a + b exceeds dim
SumExceeds(a, b, dim) == AddU32(a, b).overflow \/ GreaterU32(AddU32(a, b).wrapped, dim)

ProbeU32 == {U32(0, 0), U32(0, 1), U32(0, 2), U32(U16Max, U16Max), U32(U16Max, U16Max - 1)}

CropFiles == {f \in SampleFiles : f.guess = "Png"}

ExceedsBounds == "Crop region exceeds image bounds"

CropInit ==
    /\ Quiescent
    /\ probe = NoProbe
    /\ earlier = <<>>

\* a call of crop_image(data, x, y, width, height)
CropCall ==
    /\ pc = "idle"
    /\ \E d \in CropFiles, x \in ProbeU32, y \in ProbeU32, width \in ProbeU32, height \in ProbeU32 :
          /\ data' = d
          /\ params' = [x |-> x, y |-> y, width |-> width, height |-> height]
    /\ pc' = "crop_decode"
    /\ UNCHANGED <<decoded, rgba, history, encodes, result, outside>>

\* let decoded = decode_image(data)?;
CropDecode ==
    /\ pc = "crop_decode"
    /\ LET r == decode_image(data)
       IN  IF r.ok
           THEN /\ decoded' = r
                /\ pc' = "crop_check"
                /\ UNCHANGED result
           ELSE /\ result' = Err(r.err)
                /\ pc' = "done"
                /\ UNCHANGED decoded
    /\ UNCHANGED <<data, params, rgba, history, encodes, outside>>

\* if x + width > decoded.img.width() || y + height > decoded.img.height().
\* A sum that does not fit in 32 bits panics when the build checks
\* overflow and wraps when it does not; y + height is only evaluated when
\* the first comparison is false.
CropCheck ==
    /\ pc = "crop_check"
    /\ \E overflow_checks \in BOOLEAN :
          LET sx == AddU32(params.x, params.width)
              sy == AddU32(params.y, params.height)
              wide == GreaterU32(sx.wrapped, decoded.img.width)
          IN  IF overflow_checks /\ (sx.overflow \/ (~wide /\ sy.overflow))
              THEN /\ result' = Err("panicked")
                   /\ pc' = "done"
              ELSE IF wide \/ GreaterU32(sy.wrapped, decoded.img.height)
              THEN /\ result' = Err(ExceedsBounds)
                   /\ pc' = "done"
              ELSE /\ pc' = "crop"
                   /\ UNCHANGED result
    /\ UNCHANGED <<data, params, decoded, rgba, history, encodes, outside>>

\* let cropped = decoded.img.crop_imm(x, y, width, height): the call is
\* recorded, what the library makes of the region is not modelled
Crop ==
    /\ pc = "crop"
    /\ history' = Append(history, [stage |-> "crop_imm", input |-> decoded.img,
                                   region |-> params])
    /\ pc' = "crop_encode"
    /\ UNCHANGED <<data, params, decoded, rgba, encodes, result, outside>>

\* cropped.write_to(&mut Cursor::new(&mut output), decoded.format) and the
\* return
CropEncode ==
    /\ pc = "crop_encode"
    /\ \E written \in BOOLEAN :
          /\ encodes' = Append(encodes, [img |-> history[Len(history)],
                                         format |-> decoded.format, written |-> written])
          /\ result' = IF written
                        THEN Ok([format |-> decoded.format, img |-> history[Len(history)]])
                        ELSE Err("Failed to encode cropped image")
    /\ pc' = "done"
    /\ UNCHANGED <<data, params, decoded, rgba, history, outside>>

CropNext ==
    \/ CropCall
    \/ CropDecode
    \/ CropCheck
    \/ Crop
    \/ CropEncode
    \/ Return

CropSpec == CropInit /\ [][CropNext]_vars

\* ------------------------------------------------------------------------
\* Properties
\* ------------------------------------------------------------------------
\* the buffer the pipeline starts from
DecodedBuffer == to_rgba8(decoded.img)

\* the stages that have executed in the current call
Executed == {history[i].stage : i \in 1..Len(history)}

\* the order of the stages as the specification lists them
ListedOrder ==
    <<"exposure", "shadows", "highlights", "gamma", "brightness", "contrast",
      "saturation", "vibrance", "hue">>

Listed(name) == CHOOSE i \in 1..Len(ListedOrder) : ListedOrder[i] = name

\* the blocks of the stages the call is past
Passed ==
    IF pc \in {"idle", "decode"} \/ ~decoded.ok THEN {}
    ELSE IF pc \in {"encode", "done"} THEN {ListedOrder[i] : i \in 1..Len(ListedOrder)}
    ELSE {ListedOrder[i] : i \in 1..(Listed(pc) - 1)}

\* C1: the stages that execute do so in the listed order, none twice, and each
\* takes the buffer the previously executed stage produced (the decoded buffer
\* for the first); the local buffer is the last one produced.
C1_FixedOrder ==
    /\ \A i, j \in 1..Len(history) :
          i < j => Listed(history[i].stage) < Listed(history[j].stage)
    /\ \A i \in 1..Len(history) :
          history[i].input = IF i = 1 THEN DecodedBuffer ELSE history[i - 1].output
    /\ (decoded.ok /\ pc # "done") =>
          rgba = IF history = <<>> THEN DecodedBuffer ELSE history[Len(history)].output

C1_Witness ==
    /\ pc = "encode"
    /\ Len(history) = 9
    /\ \A i \in 1..9 : history[i].stage = ListedOrder[i]

\* C2: a stage is skipped iff its own parameter is within 0.001 of its identity
\* value (exactly 0 for the integers brightness and hue); vibrance is compared
\* on its raw scale.
C2_SkipIffNearIdentity ==
    \A st \in Passed :
        (st \notin Executed) <=>
            CASE st = "exposure"   -> Abs(params.exposure) * 1000 <= Milli
              [] st = "shadows"    -> Abs(params.shadows) * 1000 <= Milli
              [] st = "highlights" -> Abs(params.highlights) * 1000 <= Milli
              [] st = "gamma"      -> Abs(params.gamma - Milli) * 1000 <= Milli
              [] st = "brightness" -> params.brightness = 0
              [] st = "contrast"   -> Abs(params.contrast_val) * 1000 <= Milli
              [] st = "saturation" -> Abs(params.saturation - Milli) * 1000 <= Milli
              [] st = "vibrance"   -> Abs(params.vibrance) * 1000 <= Milli
              [] st = "hue"        -> params.hue = 0

\* raw vibrance 0.05 runs the stage although 0.05 / 100 is below 0.001, while
\* gamma 0.999 is skipped
C2_Witness ==
    /\ pc = "encode"
    /\ params.vibrance = 50
    /\ params.gamma = 999
    /\ Executed = {"vibrance"}

\* C3: with all nine parameters at their identity values, and whenever every
\* stage is skipped, the buffer handed to the encoder is the decoded buffer.
C3_IdentityWhenAllSkipped ==
    \A i \in 1..Len(encodes) :
        (params = IdentityParams \/ \A st \in Passed : st \notin Executed)
            => encodes[i].img = DecodedBuffer

C3_Witness ==
    /\ Len(encodes) = 1
    /\ params = IdentityParams
    /\ encodes[1].img.pixels = <<Palette[3], Palette[4]>>

\* C4: every executed stage copies the alpha of every pixel, so the buffer of
\* the pipeline keeps the alpha of the decoded buffer.  For brightness,
\* contrast and hue this holds by the contract assumed of the library, not by
\* code of the repository.
C4_AlphaPreserved ==
    /\ \A i \in 1..Len(history) :
          /\ Len(history[i].output.pixels) = Len(history[i].input.pixels)
          /\ \A k \in 1..Len(history[i].input.pixels) :
                history[i].output.pixels[k][4] = history[i].input.pixels[k][4]
    /\ (decoded.ok /\ pc # "done") =>
          /\ Len(rgba.pixels) = Len(DecodedBuffer.pixels)
          /\ \A k \in 1..Len(rgba.pixels) : rgba.pixels[k][4] = DecodedBuffer.pixels[k][4]

\* a translucent pixel whose colour a stage changed
C4_Witness ==
    \E i \in 1..Len(history) :
        /\ history[i].stage = "gamma"
        /\ history[i].input.pixels[1][4] = 77
        /\ history[i].output.pixels[1] # history[i].input.pixels[1]
        /\ history[i].output.pixels[1][4] = 77

\* the value of colour channel c of pixel px before the cast to 8 bits, in the
\* four operators that work on RGB directly
RoundedBeforeCast(st, px, c) ==
    CASE st = "exposure" -> ExposureRounded(px[c], Exp2(params.exposure))
      [] st = "gamma" -> GammaRounded(px[c], params.gamma)
      [] st = "shadows" ->
            TonedRounded(px[c], params.shadows, shadow_weight(luminance(px[1], px[2], px[3])))
      [] st = "highlights" ->
            TonedRounded(px[c], params.highlights,
                         highlight_weight(luminance(px[1], px[2], px[3])))

\* C5: every colour channel of every stage's output is in [0, 255], and a value
\* outside that range before the conversion to 8 bits becomes the nearest
\* bound, never a wrapped value.
C5_ChannelsInRange ==
    /\ \A i \in 1..Len(history) :
          \A k \in 1..Len(history[i].output.pixels) :
              \A c \in 1..3 :
                  /\ history[i].output.pixels[k][c] \in 0..ChannelMax
                  /\ history[i].stage \in {"exposure", "gamma", "shadows", "highlights"} =>
                        LET v == RoundedBeforeCast(history[i].stage, history[i].input.pixels[k], c)
                        IN  history[i].output.pixels[k][c] =
                                IF v > ChannelMax THEN ChannelMax ELSE IF v < 0 THEN 0 ELSE v
    /\ \A i \in 1..Len(encodes) :
          \A k \in 1..Len(encodes[i].img.pixels) :
              \A c \in 1..3 : encodes[i].img.pixels[k][c] \in 0..ChannelMax

\* gamma -1 sends channel 100 to 650 before the cast, and exposure +20 stops
\* sends it beyond the u16 range
C5_Witness ==
    /\ Len(history) = 2
    /\ history[1].stage = "exposure"
    /\ params.exposure = 20000
    /\ \E k \in 1..Len(history[1].input.pixels) :
          /\ ExposureRounded(history[1].input.pixels[k][1], Exp2(params.exposure)) > U16Max
          /\ history[1].output.pixels[k][1] = ChannelMax
    /\ history[2].stage = "gamma"
    /\ params.gamma = -Milli
    /\ \E k \in 1..Len(history[2].input.pixels) :
          /\ GammaRounded(history[2].input.pixels[k][1], params.gamma) > ChannelMax
          /\ history[2].output.pixels[k][1] = ChannelMax

\* C6: every executed stage returns a buffer of the width and height of its
\* input, so the buffer of the pipeline has the dimensions of the decoded image
\* up to and including the encode.
C6_DimensionsKept ==
    /\ \A i \in 1..Len(history) :
          /\ history[i].output.width = history[i].input.width
          /\ history[i].output.height = history[i].input.height
          /\ Len(history[i].output.pixels) = history[i].input.width * history[i].input.height
    /\ (decoded.ok /\ pc # "done") =>
          /\ rgba.width = decoded.img.width
          /\ rgba.height = decoded.img.height
    /\ \A i \in 1..Len(encodes) :
          /\ encodes[i].img.width = decoded.img.width
          /\ encodes[i].img.height = decoded.img.height

C6_Witness ==
    /\ Len(encodes) = 1
    /\ Len(history) = 9
    /\ decoded.img.width = 1
    /\ decoded.img.height = 2

\* C7: the pipeline adds no failure of its own: a call on a decodable input
\* goes on to the encode whatever the parameters are, and a call fails only
\* with the decode error or the encode error.
C7_PipelineNeverFails ==
    /\ (pc = "done" /\ ~result.ok) =>
          result.err \in {"Failed to decode image", "Failed to encode adjusted image"}
    /\ (pc = "done" /\ data.guess # NoFormat /\ data.payload = "ok") => Len(encodes) = 1

C7_Witness ==
    /\ pc = "done"
    /\ result.ok
    /\ params.gamma = -Milli
    /\ params.shadows = -500000
    /\ Executed = {"gamma", "shadows"}

\* C8: when the input does not decode, adjust_image returns the decode error,
\* no stage executes and nothing is encoded.
C8_DecodeErrorStopsCall ==
    (pc \notin {"idle", "decode"} /\ (data.guess = NoFormat \/ data.payload # "ok")) =>
        /\ pc = "done"
        /\ result = Err("Failed to decode image")
        /\ history = <<>>
        /\ encodes = <<>>

C8_Witness ==
    /\ pc = "done"
    /\ data.guess = "Png"
    /\ data.payload = "malformed"
    /\ params.exposure = 1000
    /\ result = Err("Failed to decode image")

\* C9: when the encoder refuses the final buffer, adjust_image returns the
\* encode error and no bytes, and write_to was called once.
C9_EncodeErrorReturnsNothing ==
    (pc = "done" /\ \E i \in 1..Len(encodes) : ~encodes[i].written) =>
        /\ ~result.ok
        /\ result.err = "Failed to encode adjusted image"
        /\ result.bytes = NoBytes
        /\ Len(encodes) = 1

C9_Witness ==
    /\ pc = "done"
    /\ Len(encodes) = 1
    /\ ~encodes[1].written
    /\ Len(history) = 2
    /\ encodes[1].img # DecodedBuffer

\* C10: the format handed to the encoder is the format the input was decoded
\* from, which is always an identified one; the PNG default of decode_image
\* never reaches the encoder in its place.
C10_EncodesInDecodedFormat ==
    \A i \in 1..Len(encodes) :
        /\ data.guess # NoFormat
        /\ encodes[i].format = data.guess
        /\ result.ok => result.bytes.format = data.guess

C10_Witness ==
    /\ pc = "done"
    /\ result.ok
    /\ data.guess = "Jpeg"
    /\ encodes[1].format = "Jpeg"

\* C11: converting an 8-bit RGB triple to HSL and back gives the triple again
\* within 1 per channel.
C11_RoundTripWithinOne ==
    probe.op = "round_trip" =>
        \A c \in 1..3 : Abs(probe.out[c] - probe.px[c]) <= 1

\* a chromatic triple has made the round trip
C11_Witness ==
    /\ probe.op = "round_trip"
    /\ probe.px = <<100, 150, 200, 255>>
    /\ probe.out = <<100, 150, 200>>

\* C12: with saturation factor 0 the saturation stage turns a pixel (r, g, b, a)
\* into (v, v, v, a), v being (max(r,g,b) + min(r,g,b)) / 2 rounded to the
\* nearest integer, halves upwards.
C12_ZeroSaturationIsGray ==
    (probe.op = "saturation" /\ probe.arg = 0) =>
        LET mx == Max(Max(probe.px[1], probe.px[2]), probe.px[3])
            mn == Min(Min(probe.px[1], probe.px[2]), probe.px[3])
            v  == (mx + mn + 1) \div 2
        IN  probe.out = <<v, v, v, probe.px[4]>>

\* the example of the specification
C12_Witness ==
    /\ probe.op = "saturation"
    /\ probe.arg = 0
    /\ probe.px = <<100, 150, 200, 255>>
    /\ probe.out = <<150, 150, 150, 255>>

\* v is x rounded to the nearest integer, where x >= 0 is given by its square
\* x^2 = n / d
RoundsRoot(v, n, d) ==
    /\ (v = 0 \/ d * (2 * v - 1) * (2 * v - 1) <= 4 * n)
    /\ 4 * n < d * (2 * v + 1) * (2 * v + 1)

\* C13: the exposure stage turns every colour channel c into
\* min(255, c * 2^stops) rounded to the nearest integer, never into a value
\* wrapped modulo 2^8 or 2^16, and copies alpha.  Half stops are stated by
\* their square: (c * 2^(1/2))^2 = 2 c^2 and (c * 2^(-1/2))^2 = c^2 / 2.
C13_ExposureClamps ==
    probe.op = "exposure" =>
        /\ probe.out[4] = probe.px[4]
        /\ \A i \in 1..3 :
              LET c == probe.px[i]
                  v == probe.out[i]
                  stops == probe.arg
                  k == Abs(stops) \div Milli
              IN  CASE stops % Milli = 0 /\ stops >= 0 -> v = Min(ChannelMax, c * 2 ^ k)
                    [] stops % Milli = 0 /\ stops < 0 -> v = (c + 2 ^ (k - 1)) \div 2 ^ k
                    [] stops = 500 -> IF 8 * c * c >= 511 * 511 THEN v = ChannelMax
                                      ELSE RoundsRoot(v, 2 * c * c, 1)
                    [] stops = -500 -> RoundsRoot(v, c * c, 2)

\* the example of the specification: 300 and 400 end on 255
C13_Witness ==
    /\ probe.op = "exposure"
    /\ probe.arg = 1000
    /\ probe.px = <<100, 150, 200, 255>>
    /\ probe.out = <<200, 255, 255, 255>>

\* 1000 * 255 * L for the luminance L = 0.299 R + 0.587 G + 0.114 B of a pixel
Luma(px) == 299 * px[1] + 587 * px[2] + 114 * px[3]

\* 1000 * 255 * 0.5
LumaHalf == (Milli * ChannelMax) \div 2

C15_OrderMatters ==
    (/\ probe.op = "saturation_hue"
     /\ probe.px = <<100, 150, 200, 255>>
     /\ probe.arg = <<500, 90>>) =>
        \E c \in 1..3 : Abs(probe.out.coded[c] - probe.out.swapped[c]) > 1

\* both orders have been evaluated on that pixel
C15_Witness ==
    /\ probe.op = "saturation_hue"
    /\ probe.px = <<100, 150, 200, 255>>
    /\ probe.arg = <<500, 90>>
    /\ probe.out.coded = <<175, 135, 167, 255>>
    /\ probe.out.swapped = <<180, 141, 173, 255>>

\* v = round(brightness * 1.28): 25 v is within 12 of 32 brightness (no
\* product 32 b / 25 lies halfway between two integers); written on the
\* quotients so that no 32-bit intermediate overflows
IsRoundOf128Percent(v, brightness) ==
    LET u == v \div 32
        w == v % 32
        q == brightness \div 25
        r == brightness % 25
    IN  /\ Abs(u - q) <= 1
        /\ Abs(800 * (u - q) + 25 * w - 32 * r) <= 12

\* the largest |brightness| up to which the f32 product rounds to
\* round(brightness * 1.28)
ExactScalingLimit == 819215

PassedThrough ==
    /\ RunsContrast(probe.arg.contrast_val) =>
           probe.out.contrast = <<probe.arg.contrast_val>>
    /\ RunsHue(probe.arg.hue) => probe.out.huerotate = <<probe.arg.hue>>

PublicRangeOffset ==
    (probe.arg.brightness \in (-100..100) \ {0}) =>
        /\ probe.out.brighten[1] # 0
        /\ probe.out.brighten[1] \in -128..128

\* C16 as stated: for every non-zero brightness the offset handed to
\* brighten is round(brightness * 1.28), non-zero and within [-128, 128]
\* for brightness in [-100, 100]; contrast and hue are handed over as they
\* came.  Violated: at brightness 819216 the f32 product gives 1048597
\* where round(819216 * 1.28) = 1048596, and from 1677721599 on the cast
\* saturates at i32::MAX.
C16_AsStated ==
    probe.op = "arguments" =>
        /\ RunsBrightness(probe.arg.brightness) =>
               /\ Len(probe.out.brighten) = 1
               /\ IsRoundOf128Percent(probe.out.brighten[1], probe.arg.brightness)
        /\ PublicRangeOffset
        /\ PassedThrough

\* C16: for every non-zero brightness of magnitude at most 819215 the
\* offset handed to brighten is round(brightness * 1.28), which is non-zero
\* and within [-128, 128] for brightness in [-100, 100]; contrast and hue
\* are handed to the library's contrast and huerotate as they came.
C16_ScaledOffset ==
    probe.op = "arguments" =>
        /\ (/\ RunsBrightness(probe.arg.brightness)
            /\ probe.arg.brightness >= -ExactScalingLimit
            /\ probe.arg.brightness <= ExactScalingLimit) =>
               /\ Len(probe.out.brighten) = 1
               /\ IsRoundOf128Percent(probe.out.brighten[1], probe.arg.brightness)
        /\ PublicRangeOffset
        /\ PassedThrough

\* the three calls made with brightness -100, contrast 50 and hue 90
C16_Witness ==
    /\ probe.op = "arguments"
    /\ probe.arg = [brightness |-> -100, contrast_val |-> 50000, hue |-> 90]
    /\ probe.out = [brighten |-> <<-128>>, contrast |-> <<50000>>, huerotate |-> <<90>>]

SameOutcome(a, b) ==
    \/ a.result = b.result
    \/ /\ Len(a.encodes) = 1
       /\ Len(b.encodes) = 1
       /\ a.encodes[1].img = b.encodes[1].img
       /\ a.encodes[1].format = b.encodes[1].format
       /\ a.encodes[1].written # b.encodes[1].written

SameArguments(a, b) == a.data = b.data /\ a.params = b.params

RegionOutside ==
    \/ SumExceeds(params.x, params.width, decoded.img.width)
    \/ SumExceeds(params.y, params.height, decoded.img.height)

\* C19: a call of crop_image whose region is not fully inside the decoded
\* image, sums beyond 2^32 - 1 included, ends with the 'exceeds image
\* bounds' error and has made no call of crop_imm and none of write_to.
C19_RejectsEveryOutsideRegion ==
    (pc = "done" /\ decoded.ok /\ RegionOutside) =>
        /\ result = Err(ExceedsBounds)
        /\ history = <<>>
        /\ encodes = <<>>

\* x = 2^32 - 1 and width = 2 on an image one pixel wide: the sum wraps to
\* 1, the test passes, and the region is cropped and encoded
C19_WrappedRegionIsCropped ==
    ~(/\ pc = "done"
      /\ params.x = U32Max
      /\ params.width = U32(0, 2)
      /\ decoded.img.width = 1
      /\ result.ok
      /\ Len(history) = 1
      /\ Len(encodes) = 1)

====
